---- MODULE Spec2Model ----
(***************************************************************************)
(* Model of app.py: a Flask application that relays a rocket-launch        *)
(* webhook to the Webex messages API as an adaptive card, plus a /status   *)
(* page.  Each in-flight POST /webhook request is one entry of req; the    *)
(* blocking call requests.post is the only point where a request waits,    *)
(* so a request is split there: HandleWebhookCall runs lines 21-126 up to  *)
(* the moment the outbound POST is on the wire, HandleWebhookReturn and    *)
(* HandleWebhookRaise run the rest once the API has answered or the        *)
(* transport has failed.  Spec is the program as written; SpecEnv adds     *)
(* changes of the process environment while requests are served.           *)
(***************************************************************************)
EXTENDS Integers, Sequences, FiniteSets, TLC

\* ------------------------------------------------------------------ bounds
NReq == 2        \* POST /webhook requests in one behaviour (they overlap freely)

\* ------------------------------------------------------------ Python values
\* Python's None (os.getenv of an unset variable, get_json of "null").
None == "None"

\* A value of a record-valued field that has not been set yet.
Nil == [nil |-> TRUE]

\* What request.get_json() can return and the handler subscripts: a dict, a
\* str, None.  The type is kept because x["data"] depends on it.  The values
\* the handler only copies (the seven texts) and the values it builds itself
\* are plain: a str is a string, a dict a record, a list a sequence, True and
\* False are TRUE and FALSE.
JObj(m) == [jt |-> "object", members |-> m]
JStr(s) == [jt |-> "string", str |-> s]
JNull == [jt |-> "null"]

\* x[key] for a str key: a dict yields the value or KeyError, every other
\* Python value (None, list, str) raises TypeError.
Subscript(x, key) ==
    IF x.jt # "object" THEN [exc |-> "TypeError", val |-> JNull]
    ELSE IF key \notin DOMAIN x.members THEN [exc |-> "KeyError", val |-> JNull]
    ELSE [exc |-> "none", val |-> x.members[key]]

\* ------------------------------------------------------------- module level
api_url == "https://webexapis.com/v1/messages"

\* The seven fields, in the order lines 27-33 read them.
Fields ==
    <<"rocket_name", "payload_type", "payload_description", "launch_time",
      "launch_site", "mission_patch", "video_stream">>

FieldSet == {Fields[n] : n \in 1..Len(Fields)}

\* Values the two environment variables may hold.
Tokens == {None, "tokenA"}
Rooms == {None, "roomA"}

VARIABLES
    env,         \* os.environ
    phase,       \* "loading" | "serving" | "crashed"
    headers,     \* the module-level headers dict
    req,         \* the POST /webhook requests
    statusResp   \* the response of the latest GET /status

vars == <<env, phase, headers, req, statusResp>>

ReqIds == 1..NReq

IdleReq ==
    [pc |-> "idle", inbound |-> Nil, outbound |-> Nil, nposts |-> 0,
     upstream |-> Nil, raised |-> "none", response |-> Nil]

\* The environment after load_dotenv(), before the module body has run.
Init ==
    /\ env \in [WEBEX_BOT_TOKEN : Tokens, WEBEX_ROOM_ID : Rooms]
    /\ phase = "loading"
    /\ headers = <<>>
    /\ req = [i \in ReqIds |-> IdleReq]
    /\ statusResp = Nil

\* f"Bearer {token}" in place of the concatenation: None is formatted.
BearerConcat_format(token) == [exc |-> "none", val |-> <<"Bearer ">> \o <<token>>]

\* "Bearer " + token: str + None raises TypeError.
BearerConcat(token) ==
    IF token = None THEN [exc |-> "TypeError", val |-> <<>>]
    ELSE [exc |-> "none", val |-> <<"Bearer ">> \o <<token>>]

\* Lines 10-17: the module body.  An exception at import ends the process.
LoadModule ==
    /\ phase = "loading"
    /\ LET auth == BearerConcat(env.WEBEX_BOT_TOKEN) IN
         IF auth.exc # "none"
         THEN /\ phase' = "crashed"
              /\ headers' = headers
         ELSE /\ phase' = "serving"
              /\ headers' = ("Content-Type" :> <<"application/json">>)
                            @@ ("Authorization" :> auth.val)
    /\ UNCHANGED <<env, req, statusResp>>

\* os.environ changes while the process is serving.  Nothing in app.py
\* assigns to it; the step stands for a change made from outside the module.
EnvChange(name, value) ==
    /\ phase = "serving"
    /\ env[name] # value
    /\ env' = [env EXCEPT ![name] = value]
    /\ UNCHANGED <<phase, headers, req, statusResp>>

\* ---------------------------------------------------------- inbound requests
\* An inbound POST /webhook: its Content-Type, whether its bytes are JSON
\* text, and the value that text denotes.
Inbound(ctype, wellformed, value) ==
    [ctype |-> ctype, wellformed |-> wellformed, value |-> value]

\* The data of two launches; every field of a launch holds its own text.
FalconData ==
    [rocket_name |-> "Falcon 9",
     payload_type |-> "Satellite",
     payload_description |-> "Comms relay",
     launch_time |-> "2024-01-01T00:00:00Z",
     launch_site |-> "Cape Canaveral",
     mission_patch |-> "http://x/img.png",
     video_stream |-> "http://x/video"]

ElectronData ==
    [rocket_name |-> "Electron",
     payload_type |-> "Cubesat",
     payload_description |-> "Imaging",
     launch_time |-> "2024-02-02T12:00:00Z",
     launch_site |-> "Mahia",
     mission_patch |-> "http://y/img.png",
     video_stream |-> "http://y/video"]

\* {"data": {...}} with all seven fields.
LaunchEvent(d) == JObj([data |-> JObj(d)])

\* The same with members the handler does not read.
LaunchEventExtra(d) ==
    JObj([data |-> JObj(d @@ ("orbit" :> "LEO")), id |-> "evt"])

ValidValues == {LaunchEvent(FalconData), LaunchEventExtra(ElectronData)}

ValidInbound == {Inbound("application/json", TRUE, v) : v \in ValidValues}

\* data without the field f.
LaunchEventWithout(f) ==
    JObj([data |-> JObj([g \in FieldSet \ {f} |-> FalconData[g]])])

\* JSON texts that are not an envelope with a complete data object.
IncompleteValues ==
    {JNull, JObj(<<>>), JObj([data |-> JStr("launch")])}
    \cup {LaunchEventWithout(f) : f \in FieldSet}

MalformedInbound ==
    {Inbound("application/json", TRUE, v) : v \in IncompleteValues}
    \cup {Inbound("application/json", FALSE, JNull),
          Inbound("text/plain", FALSE, JNull),
          Inbound("text/plain", TRUE, LaunchEvent(FalconData))}

InboundRequests == ValidInbound \cup MalformedInbound

\* The request is what the handler expects: JSON content type, JSON text, an
\* object whose data member is an object with all seven fields.
IsValid(r) ==
    /\ r.ctype = "application/json"
    /\ r.wellformed
    /\ r.value.jt = "object"
    /\ "data" \in DOMAIN r.value.members
    /\ r.value.members["data"].jt = "object"
    /\ FieldSet \subseteq DOMAIN r.value.members["data"].members

\* request.get_json(): the outcomes Flask can produce.  JSON text under a
\* JSON content type is parsed; bytes that do not parse abort the request
\* with BadRequest; under another content type the parser is not run and,
\* depending on the Flask release, the call returns None or aborts with
\* BadRequest or UnsupportedMediaType.
GetJson(r) ==
    IF r.ctype # "application/json"
    THEN {[exc |-> "none", val |-> JNull],
          [exc |-> "BadRequest", val |-> JNull],
          [exc |-> "UnsupportedMediaType", val |-> JNull]}
    ELSE IF ~r.wellformed THEN {[exc |-> "BadRequest", val |-> JNull]}
    ELSE {[exc |-> "none", val |-> r.value]}

\* Extract with line 30 reading the key of line 31: launch_time takes the
\* text of launch_site.
Extract_launch_site_twice(webhook) ==
    LET d == Subscript(webhook, "data")
        reads == [n \in 1..Len(Fields) |-> Subscript(d.val, Fields[n])]
        failed == {n \in 1..Len(Fields) : reads[n].exc # "none"}
        first == CHOOSE n \in failed : \A m \in failed : n <= m
    IN  IF d.exc # "none" THEN [exc |-> d.exc, vals |-> <<>>]
        ELSE IF failed # {} THEN [exc |-> reads[first].exc, vals |-> <<>>]
        ELSE [exc |-> "none",
              vals |-> [f \in FieldSet |->
                          IF f = "launch_time" THEN d.val.members["launch_site"]
                          ELSE d.val.members[f]]]

\* Extract with defaults: whatever is missing is read as None, nothing raises.
Extract_defaults(webhook) ==
    LET d == Subscript(webhook, "data")
        dm == IF d.exc = "none" /\ d.val.jt = "object" THEN d.val.members ELSE <<>>
    IN  [exc |-> "none",
         vals |-> [f \in FieldSet |-> IF f \in DOMAIN dm THEN dm[f] ELSE None]]

\* Lines 24-33: data = webhook["data"], then the seven reads in order.  The
\* first read that raises ends the extraction.
Extract(webhook) ==
    LET d == Subscript(webhook, "data")
        reads == [n \in 1..Len(Fields) |-> Subscript(d.val, Fields[n])]
        failed == {n \in 1..Len(Fields) : reads[n].exc # "none"}
        first == CHOOSE n \in failed : \A m \in failed : n <= m
    IN  IF d.exc # "none" THEN [exc |-> d.exc, vals |-> <<>>]
        ELSE IF failed # {} THEN [exc |-> reads[first].exc, vals |-> <<>>]
        ELSE [exc |-> "none", vals |-> [f \in FieldSet |-> d.val.members[f]]]

\* ------------------------------------------------------------ outbound body
Fact(title, value) == [title |-> title, value |-> value]

\* Lines 36-111.
card_payload(v) ==
    ("$schema" :> "http://adaptivecards.io/schemas/adaptive-card.json")
    @@ [type |-> "AdaptiveCard",
        version |-> "1.3",
        body |-> <<
          [type |-> "TextBlock",
           text |-> "Rocket Launch Successful!",
           weight |-> "Bolder",
           size |-> "Large",
           color |-> "Accent",
           wrap |-> TRUE],
          [type |-> "ColumnSet",
           columns |-> <<
             [type |-> "Column",
              width |-> "auto",
              items |-> <<
                [type |-> "Image",
                 url |-> v["mission_patch"],
                 size |-> "Small",
                 style |-> "Person"] >>],
             [type |-> "Column",
              width |-> "stretch",
              items |-> <<
                [type |-> "TextBlock",
                 text |-> "Rocket Launch Details",
                 weight |-> "Bolder",
                 wrap |-> TRUE],
                [type |-> "FactSet",
                 facts |-> <<
                   Fact("Rocket Name", v["rocket_name"]),
                   Fact("Payload Type", v["payload_type"]),
                   Fact("Payload Description", v["payload_description"]),
                   Fact("Launch Time", v["launch_time"]),
                   Fact("Launch Site", v["launch_site"]) >>] >>] >>] >>,
        actions |-> <<
          [type |-> "Action.OpenUrl",
           title |-> "Watch the Launch",
           url |-> v["video_stream"]] >>]

\* os.getenv(name): the value of the variable, None when it is unset.
Getenv(e, name) == e[name]

\* Lines 114-123.
message_payload(v, e) ==
    [roomId |-> Getenv(e, "WEBEX_ROOM_ID"),
     attachments |-> <<
       [contentType |-> "application/vnd.microsoft.card.adaptive",
        content |-> card_payload(v)] >>,
     text |-> "New Rocket Launch Detected"]

\* -------------------------------------------------------- the external API
\* Answers of the messages API: a status code and a body text.
ApiResponses ==
    {<<200, "{id}">>, <<201, "">>, <<304, "">>, <<400, "{message}">>, <<503, "">>}

\* ok taken to mean "below 500": a client error counts as success.
ok_below_500(status) == status < 500

\* requests.Response.ok: raise_for_status() raises for 400 <= status < 600
\* and for nothing else.
ok(status) == ~(400 <= status /\ status < 600)

\* ------------------------------------------------------------- responses
Response(status, body) == [status |-> status, body |-> body]

\* The page Flask answers with when a view raises.
ErrorPage(title) == [html |-> title]

\* Flask's handling of an exception that leaves a view: an HTTPException
\* becomes its own response, anything else is an unhandled fault answered
\* with 500 Internal Server Error.
FlaskErrorResponse(exc) ==
    IF exc = "BadRequest" THEN Response(400, ErrorPage("Bad Request"))
    ELSE IF exc = "UnsupportedMediaType"
    THEN Response(415, ErrorPage("Unsupported Media Type"))
    ELSE Response(500, ErrorPage("Internal Server Error"))

\* The exception is not one Flask turns into a response of its own.
IsUnhandledFault(exc) == exc \notin {"none", "BadRequest", "UnsupportedMediaType"}

\* Lines 128-131 with the success branch passing the upstream status on.
handle_webhook_result_passthrough(status, text) ==
    IF ok(status)
    THEN Response(status, [success |-> TRUE])
    ELSE Response(status, [success |-> FALSE, message |-> text])

\* Lines 128-131.
handle_webhook_result(status, text) ==
    IF ok(status)
    THEN Response(200, [success |-> TRUE])
    ELSE Response(status, [success |-> FALSE, message |-> text])

\* ------------------------------------------------------- POST /webhook
\* The exception takes the worker down: every request in flight ends with it.
Abort_worker(i, r, exc) ==
    req' = [k \in ReqIds |->
              IF k = i
              THEN [req[k] EXCEPT !.pc = "done", !.inbound = r, !.raised = exc,
                                  !.response = FlaskErrorResponse(exc)]
              ELSE IF req[k].pc = "awaiting"
              THEN [req[k] EXCEPT !.pc = "done", !.raised = exc,
                                  !.response = FlaskErrorResponse(exc)]
              ELSE req[k]]

\* The request ends with the exception exc leaving the view.
Abort(i, r, exc) ==
    req' = [req EXCEPT ![i] = [@ EXCEPT !.pc = "done", !.inbound = r,
                                        !.raised = exc,
                                        !.response = FlaskErrorResponse(exc)]]

\* The Authorization header built from the environment on every request.
OutboundPost_fresh_headers(v) ==
    [url |-> api_url,
     headers |-> [headers EXCEPT !["Authorization"] =
                                    <<"Bearer ">> \o <<env.WEBEX_BOT_TOKEN>>],
     json |-> message_payload(v, env)]

\* The outbound call of line 126 for the extracted fields v.
OutboundPost(v) ==
    [url |-> api_url, headers |-> headers, json |-> message_payload(v, env)]

\* Lines 21-126, up to the outbound POST being sent.
HandleWebhookCall(i, r) ==
    /\ phase = "serving"
    /\ req[i].pc = "idle"
    /\ \E j \in GetJson(r) :
         IF j.exc # "none" THEN Abort(i, r, j.exc)
         ELSE LET x == Extract(j.val) IN
              IF x.exc # "none" THEN Abort(i, r, x.exc)
              ELSE req' = [req EXCEPT ![i] =
                             [@ EXCEPT !.pc = "awaiting", !.inbound = r,
                                       !.outbound = OutboundPost(x.vals),
                                       !.nposts = @ + 1]]
    /\ UNCHANGED <<env, phase, headers, statusResp>>

\* Line 126 returns a response with this status and text; lines 128-131.
HandleWebhookReturn(i, status, text) ==
    /\ req[i].pc = "awaiting"
    /\ req' = [req EXCEPT ![i] =
                 [@ EXCEPT !.pc = "done",
                           !.upstream = [status |-> status, text |-> text],
                           !.response = handle_webhook_result(status, text)]]
    /\ UNCHANGED <<env, phase, headers, statusResp>>

\* The exception of line 126 caught and the POST sent again.
HandleWebhookRaise_retry(i) ==
    /\ req[i].pc = "awaiting"
    /\ req' = [req EXCEPT ![i] = [@ EXCEPT !.nposts = @ + 1]]
    /\ UNCHANGED <<env, phase, headers, statusResp>>

\* The exception of line 126 caught and answered like an upstream error.
HandleWebhookRaise_caught(i) ==
    /\ req[i].pc = "awaiting"
    /\ req' = [req EXCEPT ![i] =
                 [@ EXCEPT !.pc = "done",
                           !.upstream = [transport |-> "ConnectionError"],
                           !.response = Response(500,
                               [success |-> FALSE, message |-> ""])]]
    /\ UNCHANGED <<env, phase, headers, statusResp>>

\* Line 126 raises: no response reached the process (connection refused,
\* timeout).  Nothing catches the exception.
HandleWebhookRaise(i) ==
    /\ req[i].pc = "awaiting"
    /\ req' = [req EXCEPT ![i] =
                 [@ EXCEPT !.pc = "done",
                           !.upstream = [transport |-> "ConnectionError"],
                           !.raised = "ConnectionError",
                           !.response = FlaskErrorResponse("ConnectionError")]]
    /\ UNCHANGED <<env, phase, headers, statusResp>>

\* --------------------------------------------------------- GET /status
\* templates/status.html rendered with the message.
render_template_status(message) ==
    [html |-> message]

\* The page reporting trouble once a webhook request has ended in a fault.
status_reports_faults ==
    /\ phase = "serving"
    /\ statusResp' =
         IF \E i \in ReqIds : req[i].response # Nil /\ req[i].response.status = 500
         THEN Response(500, render_template_status("The server has failed requests"))
         ELSE Response(200, render_template_status("The server is up and running!"))
    /\ UNCHANGED <<env, phase, headers, req>>

\* Lines 134-136.
status ==
    /\ phase = "serving"
    /\ statusResp' = Response(200, render_template_status("The server is up and running!"))
    /\ UNCHANGED <<env, phase, headers, req>>

\* ------------------------------------------------------ the specification
\* The program: the module is loaded, then requests are served.
Next ==
    \/ LoadModule
    \/ \E i \in ReqIds, r \in InboundRequests : HandleWebhookCall(i, r)
    \/ \E i \in ReqIds, a \in ApiResponses : HandleWebhookReturn(i, a[1], a[2])
    \/ \E i \in ReqIds : HandleWebhookRaise(i)
    \/ status

Spec == Init /\ [][Next]_vars

\* POST /webhook served while the environment changes under the process.
NextEnv ==
    \/ LoadModule
    \/ \E v \in Tokens : EnvChange("WEBEX_BOT_TOKEN", v)
    \/ \E v \in Rooms : EnvChange("WEBEX_ROOM_ID", v)
    \/ \E i \in ReqIds, r \in InboundRequests : HandleWebhookCall(i, r)
    \/ \E i \in ReqIds, a \in ApiResponses : HandleWebhookReturn(i, a[1], a[2])
    \/ \E i \in ReqIds : HandleWebhookRaise(i)

SpecEnv == Init /\ [][NextEnv]_vars

\* ================================================================ claims
\* Places of the outbound body, found by walking the JSON that was sent.
Posted(i) == req[i].outbound # Nil

DataOf(i) == req[i].inbound.value.members["data"].members

CardOf(i) == req[i].outbound.json["attachments"][1]["content"]

ColumnsOf(i) == CardOf(i)["body"][2]["columns"]

ImageUrlOf(i) == ColumnsOf(i)[1]["items"][1]["url"]

FactsOf(i) == ColumnsOf(i)[2]["items"][2]["facts"]

ActionUrlOf(i) == CardOf(i)["actions"][1]["url"]

FactTitles ==
    <<"Rocket Name", "Payload Type", "Payload Description", "Launch Time", "Launch Site">>

\* The outbound body of request i with its seven slots and its roomId blanked.
SkeletonOf(i) ==
    [req[i].outbound.json EXCEPT
       !["roomId"] = None,
       !["attachments"][1]["content"]["actions"][1]["url"] = None,
       !["attachments"][1]["content"]["body"][2]["columns"][1]["items"][1]["url"] = None,
       !["attachments"][1]["content"]["body"][2]["columns"][2]["items"][2]["facts"] =
           [n \in 1..Len(@) |-> [@[n] EXCEPT !["value"] = None]]]

\* The seven slots of the body request i sent hold the seven fields of its
\* own inbound data.
SlotsHoldOwnFields(i) ==
    /\ ImageUrlOf(i) = DataOf(i)["mission_patch"]
    /\ Len(FactsOf(i)) = 5
    /\ \A n \in 1..5 :
         FactsOf(i)[n] = [title |-> FactTitles[n], value |-> DataOf(i)[Fields[n]]]
    /\ ActionUrlOf(i) = DataOf(i)["video_stream"]

\* C1: for a valid request the outbound body holds mission_patch as the Image
\* url, the five texts as the values of the facts titled Rocket Name, Payload
\* Type, Payload Description, Launch Time, Launch Site in that order, and
\* video_stream as the Action.OpenUrl url, each unchanged; with those slots
\* (and the roomId, which comes from the environment) blanked, the bodies of
\* any two requests are equal, whatever their inbound requests were.
C1_FieldsInFixedSlots ==
    \A i \in ReqIds : (req[i].pc # "idle" /\ IsValid(req[i].inbound)) =>
        /\ Posted(i)
        /\ SlotsHoldOwnFields(i)
        /\ \A j \in ReqIds : Posted(j) => SkeletonOf(i) = SkeletonOf(j)

\* Two valid requests with different events have both been relayed.
C1_Witness ==
    \E i, j \in ReqIds :
        /\ Posted(i) /\ Posted(j)
        /\ DataOf(i)["launch_time"] # DataOf(j)["launch_time"]
        /\ "orbit" \in DOMAIN DataOf(j)

\* The external API answered request i with an HTTP response.
Answered(i) == req[i].pc = "done" /\ "status" \in DOMAIN req[i].upstream

\* A 2xx status.
IsSuccessStatus(code) == 200 <= code /\ code <= 299

SuccessAck == [success |-> TRUE]

FailureAck(text) == [success |-> FALSE, message |-> text]

\* C2 as claimed: whenever the external API answers with a status that is
\* not a success (2xx) status, the caller receives that status and
\* {"success": false, "message": <upstream body>}.
C2_Original ==
    \A i \in ReqIds : (Answered(i) /\ ~IsSuccessStatus(req[i].upstream.status)) =>
        req[i].response = Response(req[i].upstream.status, FailureAck(req[i].upstream.text))

\* C2 amended: whenever the external API answers with a status from 400 to
\* 599, the caller receives that status and {"success": false, "message":
\* <upstream body>}; any other status that is not 2xx is answered like a
\* success, with {"success": true} and 200.
C2_MirrorsClientAndServerErrors ==
    \A i \in ReqIds : Answered(i) =>
        LET u == req[i].upstream IN
        /\ (400 <= u.status /\ u.status <= 599) =>
              req[i].response = Response(u.status, FailureAck(u.text))
        /\ (~IsSuccessStatus(u.status) /\ ~(400 <= u.status /\ u.status <= 599)) =>
              req[i].response = Response(200, SuccessAck)

\* A 400 with a body has been mirrored to the caller.
C2_Witness ==
    \E i \in ReqIds :
        /\ Answered(i)
        /\ req[i].upstream = [status |-> 400, text |-> "{message}"]
        /\ req[i].response.status = 400

\* C3: whenever the external API answers with a 2xx status, the caller
\* receives exactly {"success": true} with status 200, whatever the upstream
\* status and body were.
C3_SuccessIsPlain200 ==
    \A i \in ReqIds : (Answered(i) /\ IsSuccessStatus(req[i].upstream.status)) =>
        req[i].response = Response(200, SuccessAck)

\* Two requests were answered with different 2xx statuses and bodies.
C3_Witness ==
    \E i, j \in ReqIds :
        /\ Answered(i) /\ Answered(j)
        /\ req[i].upstream = [status |-> 201, text |-> ""]
        /\ req[j].upstream = [status |-> 200, text |-> "{id}"]
        /\ req[i].response = req[j].response

\* C4: no request ever has more than one outbound POST; a valid request has
\* exactly one, to https://webexapis.com/v1/messages, from the moment it
\* waits for the API, so before it has a response and whatever the outcome.
C4_ExactlyOnePost ==
    \A i \in ReqIds :
        /\ req[i].nposts <= 1
        /\ (req[i].pc # "idle" /\ IsValid(req[i].inbound)) =>
              /\ req[i].nposts = 1
              /\ req[i].outbound.url = "https://webexapis.com/v1/messages"
        /\ req[i].response # Nil => req[i].pc = "done"

\* One valid request ended with an upstream error, another with a transport
\* failure: each has its single POST.
C4_Witness ==
    \E i, j \in ReqIds :
        /\ Answered(i) /\ req[i].upstream.status = 503 /\ req[i].nposts = 1
        /\ req[j].pc = "done" /\ req[j].raised = "ConnectionError" /\ req[j].nposts = 1

\* C5: every response of GET /status is 200 with a non-empty body, in every
\* state of the webhook requests; a GET /status changes no webhook request,
\* so it issues no outbound call.
C5_StatusAlways200 ==
    /\ [](statusResp # Nil =>
            /\ statusResp.status = 200
            /\ statusResp.body.html # "")
    /\ [][statusResp' # statusResp => (req' = req /\ env' = env)]_vars

\* GET /status was answered while one webhook request had ended in a fault
\* and another was waiting for the external API.
C5_Witness ==
    /\ statusResp # Nil
    /\ \E i, j \in ReqIds :
         /\ req[i].pc = "done" /\ req[i].response.status = 500
         /\ req[j].pc = "awaiting"

\* The request is JSON text under a JSON content type.
IsJsonText(r) == r.ctype = "application/json" /\ r.wellformed

\* C6 as claimed: every malformed request ends in an unhandled fault, not in
\* a 4xx response, and issues no outbound POST.
C6_Original ==
    \A i \in ReqIds : (req[i].pc # "idle" /\ ~IsValid(req[i].inbound)) =>
        /\ IsUnhandledFault(req[i].raised)
        /\ req[i].response.status = 500
        /\ req[i].nposts = 0

\* C6 amended: a request whose JSON lacks data, or whose data lacks any of
\* the seven fields, ends in an unhandled fault (KeyError or TypeError, 500);
\* a body that is not JSON is refused by get_json with 400 (or, under a
\* non-JSON content type, 400, 415 or an unhandled fault); no malformed
\* request issues an outbound POST.
C6_MalformedNeverPosts ==
    \A i \in ReqIds : (req[i].pc # "idle" /\ ~IsValid(req[i].inbound)) =>
        /\ req[i].pc = "done"
        /\ req[i].nposts = 0
        /\ ~Posted(i)
        /\ IsJsonText(req[i].inbound) =>
              /\ req[i].raised \in {"KeyError", "TypeError"}
              /\ req[i].response = Response(500, ErrorPage("Internal Server Error"))
        /\ (req[i].inbound.ctype = "application/json" /\ ~req[i].inbound.wellformed) =>
              /\ req[i].raised = "BadRequest"
              /\ req[i].response.status = 400
        /\ req[i].inbound.ctype # "application/json" =>
              \/ req[i].raised = "TypeError" /\ req[i].response.status = 500
              \/ req[i].raised = "BadRequest" /\ req[i].response.status = 400
              \/ req[i].raised = "UnsupportedMediaType" /\ req[i].response.status = 415

\* A request without video_stream, the last field read, ended in KeyError.
C6_Witness ==
    \E i \in ReqIds :
        /\ req[i].pc = "done"
        /\ req[i].inbound = Inbound("application/json", TRUE,
                                    LaunchEventWithout("video_stream"))
        /\ req[i].raised = "KeyError"
        /\ req[i].nposts = 0

\* The Authorization header and the roomId request i sent.
AuthorizationOf(i) == req[i].outbound.headers["Authorization"]

RoomIdOf(i) == req[i].outbound.json["roomId"]

\* C7 as claimed: all outbound POSTs of the process carry the same roomId, the
\* same Authorization header and the same URL.
C7_Original ==
    \A i, j \in ReqIds : (Posted(i) /\ Posted(j)) =>
        /\ RoomIdOf(i) = RoomIdOf(j)
        /\ AuthorizationOf(i) = AuthorizationOf(j)
        /\ req[i].outbound.url = req[j].outbound.url

\* C7 amended: the credential and the URL are fixed at startup, so all
\* outbound POSTs carry the same Authorization header and the same URL even
\* if the environment changes afterwards, and the headers never change while
\* the process serves; the roomId is read from the environment by each
\* request and is the value the variable has at that moment.
C7_CredentialAndUrlFixed ==
    /\ [](\A i, j \in ReqIds : (Posted(i) /\ Posted(j)) =>
            /\ AuthorizationOf(i) = AuthorizationOf(j)
            /\ req[i].outbound.url = req[j].outbound.url)
    /\ [][phase = "serving" => headers' = headers]_vars
    /\ [][\A i \in ReqIds : (~Posted(i) /\ Posted(i)') =>
            RoomIdOf(i)' = env.WEBEX_ROOM_ID]_vars

\* Two requests were relayed, the environment having changed in between: the
\* token variable no longer holds the token of startup, the roomIds differ.
C7_Witness ==
    \E i, j \in ReqIds :
        /\ Posted(i) /\ Posted(j)
        /\ RoomIdOf(i) # RoomIdOf(j)
        /\ AuthorizationOf(i) = AuthorizationOf(j)
        /\ env.WEBEX_BOT_TOKEN = None

\* C8 as claimed: with the token or the room identifier unset the process
\* fails at startup, and a process that failed relays nothing.
C8_Original ==
    /\ [][(phase = "loading" /\ (env.WEBEX_BOT_TOKEN = None \/ env.WEBEX_ROOM_ID = None))
             => phase' = "crashed"]_vars
    /\ [](phase = "crashed" => \A i \in ReqIds : ~Posted(i))

\* C8 amended: with the token unset the process fails at startup and relays
\* nothing; with the token set it starts whether or not the room identifier
\* is set, and every POST it sends carries the token of startup and the room
\* identifier of the environment, null when that is unset.
C8_TokenRequiredAtStartup ==
    /\ [][(phase = "loading" /\ env.WEBEX_BOT_TOKEN = None) => phase' = "crashed"]_vars
    /\ [][(phase = "loading" /\ env.WEBEX_BOT_TOKEN # None) => phase' = "serving"]_vars
    /\ [](phase = "crashed" => \A i \in ReqIds : req[i].pc = "idle")
    /\ [](\A i \in ReqIds : Posted(i) =>
            /\ phase = "serving"
            /\ AuthorizationOf(i) = <<"Bearer ", "tokenA">>
            /\ RoomIdOf(i) = env.WEBEX_ROOM_ID)

\* The process failed at startup with the token unset.
C8_Witness == phase = "crashed" /\ env.WEBEX_BOT_TOKEN = None

\* C9: a request whose outbound POST failed in the transport ends with the
\* exception unhandled: the caller gets the 500 error page, not a success or
\* failure acknowledgment, and the request has made its one POST and no other.
C9_TransportFailureIsFault ==
    \A i \in ReqIds : (req[i].pc = "done" /\ "transport" \in DOMAIN req[i].upstream) =>
        /\ req[i].raised = "ConnectionError"
        /\ IsUnhandledFault(req[i].raised)
        /\ req[i].response.status = 500
        /\ "success" \notin DOMAIN req[i].response.body
        /\ req[i].nposts = 1

\* A transport failure has ended a request.
C9_Witness ==
    \E i \in ReqIds :
        /\ req[i].pc = "done"
        /\ req[i].upstream = [transport |-> "ConnectionError"]
        /\ req[i].response.status = 500

\* C10: a step of one request changes no other request; whatever the other
\* requests did, the slots of a request's outbound body hold its own fields,
\* two requests with the same inbound body sent under the same roomId have
\* sent the same outbound call, and two requests whose outbound calls had the
\* same outcome have the same response.
C10_RequestsIndependent ==
    /\ [][\A i \in ReqIds : req[i]' # req[i] =>
            \A j \in ReqIds \ {i} : req[j]' = req[j]]_vars
    /\ [](\A i, j \in ReqIds :
            /\ (Posted(i) /\ Posted(j) /\ req[i].inbound = req[j].inbound
                  /\ RoomIdOf(i) = RoomIdOf(j)) => req[i].outbound = req[j].outbound
            /\ (Posted(i) /\ Posted(j) /\ req[i].pc = "done" /\ req[j].pc = "done"
                  /\ req[i].upstream = req[j].upstream) => req[i].response = req[j].response
            /\ Posted(i) => SlotsHoldOwnFields(i))

\* One request ended in a fault while another, with a different event, had
\* been relayed and answered with success.
C10_Witness ==
    \E i, j \in ReqIds :
        /\ req[i].pc = "done" /\ req[i].raised = "KeyError"
        /\ Answered(j) /\ req[j].response = Response(200, SuccessAck)

====
